---------------------------- MODULE Spec2Model ----------------------------
(***************************************************************************)
(* Model of go/vt/topo/srvshard.go: the serving-graph records SrvShard,    *)
(* KeyspacePartition and SrvKeyspace, their BSON codecs, and the ordering  *)
(* of a SrvShardArray.                                                     *)
(*                                                                         *)
(* A buffer is a sequence of bytes (0..255).  A Go string is the sequence  *)
(* of its bytes.  A Go slice is [nil, v] and a Go map is [nil, m], so that *)
(* a nil collection and an empty one are different values, as in Go.       *)
(* A decoder takes the buffer and the read position (1-based) and returns  *)
(* [st, pos, val]: st is "ok" or the fault that the panic carries.         *)
(***************************************************************************)
EXTENDS Integers, Sequences, FiniteSets, TLC

VARIABLES what, src, order, buf, tamper, wire, dst0, dst, res, phase,
          sa0, sa1, sa, nsort

vars == <<what, src, order, buf, tamper, wire, dst0, dst, res, phase,
          sa0, sa1, sa, nsort>>

codecVars == <<what, src, order, buf, tamper, wire, dst0, dst, res, phase>>

sortVars == <<sa0, sa1, sa, nsort>>

(***************************************************************************)
(* Bounds of the model.                                                    *)
(***************************************************************************)
\* longest TabletType sequence drawn as an input
MaxTypes == 2

\* longest SrvShard sequence drawn as an input of the codec
MaxShards == 2

\* largest version token drawn as an input
MaxVersion == 1

\* longest SrvShardArray handed to Sort()
MaxSort == 3

(***************************************************************************)
(* Strings of the program, as bytes.                                       *)
(***************************************************************************)
\* "KeyRange"
nKeyRange == <<75, 101, 121, 82, 97, 110, 103, 101>>

\* "ServedTypes"
nServedTypes == <<83, 101, 114, 118, 101, 100, 84, 121, 112, 101, 115>>

\* "TabletTypes"
nTabletTypes == <<84, 97, 98, 108, 101, 116, 84, 121, 112, 101, 115>>

\* "Shards"
nShards == <<83, 104, 97, 114, 100, 115>>

\* "Partitions"
nPartitions == <<80, 97, 114, 116, 105, 116, 105, 111, 110, 115>>

\* "ShardingColumnName"
nShardingColumnName == <<83, 104, 97, 114, 100, 105, 110, 103, 67, 111, 108, 117, 109, 110, 78, 97, 109, 101>>

\* "ShardingColumnType"
nShardingColumnType == <<83, 104, 97, 114, 100, 105, 110, 103, 67, 111, 108, 117, 109, 110, 84, 121, 112, 101>>

\* "ServedFrom"
nServedFrom == <<83, 101, 114, 118, 101, 100, 70, 114, 111, 109>>

\* "Start"
nStart == <<83, 116, 97, 114, 116>>

\* "End"
nEnd == <<69, 110, 100>>

\* TabletType values "master", "replica", "rdonly"
nmaster == <<109, 97, 115, 116, 101, 114>>

nreplica == <<114, 101, 112, 108, 105, 99, 97>>

nrdonly == <<114, 100, 111, 110, 108, 121>>

\* a field name no decoder knows: "X"
nX == <<88>>

\* sharding column name "id", type "uint64", keyspace names "ks1", "ks2"
nid == <<105, 100>>

nuint64 == <<117, 105, 110, 116, 54, 52>>

nks1 == <<107, 115, 49>>

nks2 == <<107, 115, 50>>

(***************************************************************************)
(* Wire primitives (package bson).                                         *)
(***************************************************************************)
EOO == 0

String == 2

Object == 3

Array == 4

Binary == 5

Null == 10

Tags == {Null, String, Binary, Array, Object}

Uint32(n) == <<n % 256, (n \div 256) % 256, (n \div 65536) % 256, (n \div 16777216) % 256>>

PackUint32(b) == b[1] + 256 * b[2] + 65536 * b[3] + 16777216 * b[4]

RECURSIVE Itoa(_)
Itoa(i) == IF i < 10 THEN <<48 + i>> ELSE Itoa(i \div 10) \o <<48 + (i % 10)>>

EncodePrefix(etype, name) == <<etype>> \o name \o <<0>>

EncodeOptionalPrefix(etype, key) == IF key = <<>> THEN <<>> ELSE EncodePrefix(etype, key)

\* NewLenWriter ... RecordLen around the bytes written in between
LenWriter(body) == Uint32(Len(body)) \o body

EncodeString(key, val) == EncodePrefix(Binary, key) \o Uint32(Len(val)) \o <<0>> \o val

Ok(pos, val) == [st |-> "ok", pos |-> pos, val |-> val]

Panic(st, val) == [st |-> st, pos |-> 0, val |-> val]

BsonNext(b, pos, n) ==
    IF pos + n - 1 <= Len(b) THEN Ok(pos + n, SubSeq(b, pos, pos + n - 1))
    ELSE Panic("Truncated", <<>>)

NextByte(b, pos) ==
    IF pos <= Len(b) THEN Ok(pos + 1, b[pos]) ELSE Panic("Truncated", 0)

RECURSIVE IndexByte(_, _)
IndexByte(b, pos) ==
    IF pos > Len(b) THEN 0
    ELSE IF b[pos] = 0 THEN pos
    ELSE IndexByte(b, pos + 1)

ReadCString(b, pos) ==
    LET i == IndexByte(b, pos)
    IN  IF i = 0 THEN Panic("Truncated", <<>>)
        ELSE Ok(i + 1, SubSeq(b, pos, i - 1))

SkipIndex(b, pos) == ReadCString(b, pos)

DecodeString(b, pos, kind) ==
    IF kind = String THEN
        LET l == BsonNext(b, pos, 4)
        IN  IF l.st # "ok" THEN Panic(l.st, <<>>)
            ELSE IF PackUint32(l.val) < 1 THEN Panic("Truncated", <<>>)
            ELSE LET s == BsonNext(b, l.pos, PackUint32(l.val) - 1)
                 IN  IF s.st # "ok" THEN Panic(s.st, <<>>)
                     ELSE LET z == NextByte(b, s.pos)
                          IN  IF z.st # "ok" THEN Panic(z.st, <<>>)
                              ELSE Ok(z.pos, s.val)
    ELSE IF kind = Binary THEN
        LET l == BsonNext(b, pos, 4)
        IN  IF l.st # "ok" THEN Panic(l.st, <<>>)
            ELSE LET t == BsonNext(b, l.pos, 1)
                 IN  IF t.st # "ok" THEN Panic(t.st, <<>>)
                     ELSE LET s == BsonNext(b, t.pos, PackUint32(l.val))
                          IN  IF s.st # "ok" THEN Panic(s.st, <<>>)
                              ELSE Ok(s.pos, s.val)
    ELSE IF kind = Null THEN Ok(pos, <<>>)
    ELSE Panic("UnexpectedTag", <<>>)

\* consume and discard one value by its own tag
Skip(b, pos, kind) ==
    IF kind = Null THEN Ok(pos, <<>>)
    ELSE IF kind \in {String, Object, Array} THEN
        LET l == BsonNext(b, pos, 4)
        IN  IF l.st # "ok" THEN Panic(l.st, <<>>)
            ELSE LET s == BsonNext(b, l.pos, PackUint32(l.val))
                 IN  IF s.st # "ok" THEN Panic(s.st, <<>>) ELSE Ok(s.pos, <<>>)
    ELSE IF kind = Binary THEN
        LET l == BsonNext(b, pos, 4)
        IN  IF l.st # "ok" THEN Panic(l.st, <<>>)
            ELSE LET s == BsonNext(b, l.pos, PackUint32(l.val) + 1)
                 IN  IF s.st # "ok" THEN Panic(s.st, <<>>) ELSE Ok(s.pos, <<>>)
    ELSE Panic("UnexpectedTag", <<>>)

VerifyObject(kind) == kind = EOO \/ kind = Object

(***************************************************************************)
(* Go values.                                                              *)
(***************************************************************************)
NilSlice == [nil |-> TRUE, v |-> <<>>]

Slice(v) == [nil |-> FALSE, v |-> v]

NilMap == [nil |-> TRUE, m |-> <<>>]

Map(m) == [nil |-> FALSE, m |-> m]

\* values[k] = v
MapSet(m, k, v) == [x \in (DOMAIN m) \cup {k} |-> IF x = k THEN v ELSE m[x]]

ZeroKeyRange == [Start |-> <<>>, End |-> <<>>]

\* a default case that takes no unknown field
SkippedNever(x, r) == Panic("UnexpectedTag", x)

\* a case of an object decoder's switch that assigns a decoder's result r to a
\* field f of the receiver x; a panic in the decoder leaves the field as it was
Assigned(x, f, r) ==
    IF r.st # "ok" THEN Panic(r.st, x) ELSE Ok(r.pos, [x EXCEPT ![f] = r.val])

\* the default case: bson.Skip
Skipped(x, r) == IF r.st # "ok" THEN Panic(r.st, x) ELSE Ok(r.pos, x)

\* key.KeyRange's own object codec
KeyRangeMarshalBson(kr, key) ==
    EncodeOptionalPrefix(Object, key)
        \o LenWriter(EncodeString(nStart, kr.Start) \o EncodeString(nEnd, kr.End) \o <<0>>)

KeyRangeField(kr, b, pos, kind, keyName) ==
    IF keyName = nStart THEN Assigned(kr, "Start", DecodeString(b, pos, kind))
    ELSE IF keyName = nEnd THEN Assigned(kr, "End", DecodeString(b, pos, kind))
    ELSE Skipped(kr, Skip(b, pos, kind))

RECURSIVE KeyRangeLoop(_, _, _, _)
\* after a case of the switch, f its result: kind = bson.NextByte(buf), and around
KeyRangeNext(b, f) ==
    IF f.st # "ok" THEN f
    ELSE LET k == NextByte(b, f.pos)
         IN  IF k.st # "ok" THEN Panic(k.st, f.val)
             ELSE KeyRangeLoop(f.val, b, k.pos, k.val)

KeyRangeLoop(kr, b, pos, kind) ==
    IF kind = EOO THEN Ok(pos, kr)
    ELSE LET n == ReadCString(b, pos)
         IN  IF n.st # "ok" THEN Panic(n.st, kr)
             ELSE KeyRangeNext(b, KeyRangeField(kr, b, n.pos, kind, n.val))

KeyRangeUnmarshalBson(kr, b, pos, kind) ==
    IF ~VerifyObject(kind) THEN Panic("UnexpectedTag", kr)
    ELSE LET l == BsonNext(b, pos, 4)
         IN  IF l.st # "ok" THEN Panic(l.st, kr)
             ELSE LET k == NextByte(b, l.pos)
                  IN  IF k.st # "ok" THEN Panic(k.st, kr)
                      ELSE KeyRangeLoop(kr, b, k.pos, k.val)

(***************************************************************************)
(* SrvShard.                                                               *)
(***************************************************************************)
NewSrvShard(version) ==
    [KeyRange |-> ZeroKeyRange, ServedTypes |-> NilSlice, TabletTypes |-> NilSlice,
     version |-> version]

RECURSIVE EncodeTabletTypeElems(_, _)
EncodeTabletTypeElems(values, i) ==
    IF i > Len(values) THEN <<>>
    ELSE EncodeString(Itoa(i - 1), values[i]) \o EncodeTabletTypeElems(values, i + 1)

EncodeTabletTypeArray(name, values) ==
    IF Len(values.v) = 0 THEN EncodePrefix(Null, name)
    ELSE EncodePrefix(Array, name)
            \o LenWriter(EncodeTabletTypeElems(values.v, 1) \o <<0>>)

RECURSIVE DecodeTabletTypeLoop(_, _, _, _)
\* values = append(values, s); kind = bson.NextByte(buf), and around
DecodeTabletTypeNext(b, values, s) ==
    IF s.st # "ok" THEN Panic(s.st, <<>>)
    ELSE LET k == NextByte(b, s.pos)
         IN  IF k.st # "ok" THEN Panic(k.st, <<>>)
             ELSE DecodeTabletTypeLoop(b, k.pos, k.val, Append(values, s.val))

DecodeTabletTypeLoop(b, pos, kind, values) ==
    IF kind = EOO THEN Ok(pos, Slice(values))
    ELSE IF kind # Binary THEN Panic("UnexpectedTag", <<>>)
    ELSE LET i == SkipIndex(b, pos)
         IN  IF i.st # "ok" THEN Panic(i.st, <<>>)
             ELSE DecodeTabletTypeNext(b, values, DecodeString(b, i.pos, kind))

DecodeTabletTypeArray(b, pos, kind) ==
    IF kind = Null THEN Ok(pos, NilSlice)
    ELSE IF kind # Array THEN Panic("UnexpectedTag", <<>>)
    ELSE LET l == BsonNext(b, pos, 4)
         IN  IF l.st # "ok" THEN Panic(l.st, <<>>)
             ELSE LET k == NextByte(b, l.pos)
                  IN  IF k.st # "ok" THEN Panic(k.st, <<>>)
                      ELSE DecodeTabletTypeLoop(b, k.pos, k.val, <<>>)

\* SrvShard.MarshalBson, had it written the version too
SrvShardMarshalBsonVersion(ss, key) ==
    EncodeOptionalPrefix(Object, key)
        \o LenWriter(KeyRangeMarshalBson(ss.KeyRange, nKeyRange)
                        \o EncodeTabletTypeArray(nServedTypes, ss.ServedTypes)
                        \o EncodeTabletTypeArray(nTabletTypes, ss.TabletTypes)
                        \o EncodeString(nX, Itoa(ss.version))
                        \o <<0>>)

SrvShardMarshalBson(ss, key) ==
    EncodeOptionalPrefix(Object, key)
        \o LenWriter(KeyRangeMarshalBson(ss.KeyRange, nKeyRange)
                        \o EncodeTabletTypeArray(nServedTypes, ss.ServedTypes)
                        \o EncodeTabletTypeArray(nTabletTypes, ss.TabletTypes)
                        \o <<0>>)

\* ss.KeyRange.UnmarshalBson works on the field in place: what it wrote before a
\* panic stays written
SrvShardKeyRange(ss, r) == [st |-> r.st, pos |-> r.pos, val |-> [ss EXCEPT !.KeyRange = r.val]]

\* the switch keyName with the two TabletType cases exchanged
SrvShardFieldSwapped(ss, b, pos, kind, keyName) ==
    IF keyName = nKeyRange THEN
        SrvShardKeyRange(ss, KeyRangeUnmarshalBson(ss.KeyRange, b, pos, kind))
    ELSE IF keyName = nServedTypes THEN
        Assigned(ss, "TabletTypes", DecodeTabletTypeArray(b, pos, kind))
    ELSE IF keyName = nTabletTypes THEN
        Assigned(ss, "ServedTypes", DecodeTabletTypeArray(b, pos, kind))
    ELSE Skipped(ss, Skip(b, pos, kind))

\* the switch keyName of SrvShard.UnmarshalBson
SrvShardField(ss, b, pos, kind, keyName) ==
    IF keyName = nKeyRange THEN
        SrvShardKeyRange(ss, KeyRangeUnmarshalBson(ss.KeyRange, b, pos, kind))
    ELSE IF keyName = nServedTypes THEN
        Assigned(ss, "ServedTypes", DecodeTabletTypeArray(b, pos, kind))
    ELSE IF keyName = nTabletTypes THEN
        Assigned(ss, "TabletTypes", DecodeTabletTypeArray(b, pos, kind))
    ELSE Skipped(ss, Skip(b, pos, kind))

RECURSIVE SrvShardLoop(_, _, _, _)
SrvShardNext(b, f) ==
    IF f.st # "ok" THEN f
    ELSE LET k == NextByte(b, f.pos)
         IN  IF k.st # "ok" THEN Panic(k.st, f.val)
             ELSE SrvShardLoop(f.val, b, k.pos, k.val)

SrvShardLoop(ss, b, pos, kind) ==
    IF kind = EOO THEN Ok(pos, ss)
    ELSE LET n == ReadCString(b, pos)
         IN  IF n.st # "ok" THEN Panic(n.st, ss)
             ELSE SrvShardNext(b, SrvShardField(ss, b, n.pos, kind, n.val))

\* a decode that gives the receiver back as it was when it faults
Restored(ss, r) == IF r.st # "ok" THEN Panic(r.st, ss) ELSE r

SrvShardUnmarshalBsonAtomic(ss, b, pos, kind) ==
    IF ~VerifyObject(kind) THEN Panic("UnexpectedTag", ss)
    ELSE LET l == BsonNext(b, pos, 4)
         IN  IF l.st # "ok" THEN Panic(l.st, ss)
             ELSE LET k == NextByte(b, l.pos)
                  IN  IF k.st # "ok" THEN Panic(k.st, ss)
                      ELSE Restored(ss, SrvShardLoop(ss, b, k.pos, k.val))

SrvShardUnmarshalBson(ss, b, pos, kind) ==
    IF ~VerifyObject(kind) THEN Panic("UnexpectedTag", ss)
    ELSE LET l == BsonNext(b, pos, 4)
         IN  IF l.st # "ok" THEN Panic(l.st, ss)
             ELSE LET k == NextByte(b, l.pos)
                  IN  IF k.st # "ok" THEN Panic(k.st, ss)
                      ELSE SrvShardLoop(ss, b, k.pos, k.val)

(***************************************************************************)
(* KeyspacePartition.                                                      *)
(***************************************************************************)
RECURSIVE EncodeSrvShardElems(_, _)
EncodeSrvShardElems(values, i) ==
    IF i > Len(values) THEN <<>>
    ELSE SrvShardMarshalBson(values[i], Itoa(i - 1)) \o EncodeSrvShardElems(values, i + 1)

EncodeSrvShardArray(name, values) ==
    IF Len(values.v) = 0 THEN EncodePrefix(Null, name)
    ELSE EncodePrefix(Array, name)
            \o LenWriter(EncodeSrvShardElems(values.v, 1) \o <<0>>)

RECURSIVE DecodeSrvShardLoop(_, _, _, _)
\* values = append(values, *value); kind = bson.NextByte(buf), and around
DecodeSrvShardNext(b, values, s) ==
    IF s.st # "ok" THEN Panic(s.st, <<>>)
    ELSE LET k == NextByte(b, s.pos)
         IN  IF k.st # "ok" THEN Panic(k.st, <<>>)
             ELSE DecodeSrvShardLoop(b, k.pos, k.val, Append(values, s.val))

DecodeSrvShardLoop(b, pos, kind, values) ==
    IF kind = EOO THEN Ok(pos, Slice(values))
    ELSE IF kind # Object THEN Panic("UnexpectedTag", <<>>)
    ELSE LET i == SkipIndex(b, pos)
         IN  IF i.st # "ok" THEN Panic(i.st, <<>>)
             ELSE DecodeSrvShardNext(b, values,
                                     SrvShardUnmarshalBson(NewSrvShard(0), b, i.pos, kind))

\* DecodeSrvShardArray reading a length after a Null tag too
DecodeSrvShardArrayLength(b, pos, kind) ==
    IF kind \notin {Null, Array} THEN Panic("UnexpectedTag", <<>>)
    ELSE LET l == BsonNext(b, pos, 4)
         IN  IF l.st # "ok" THEN Panic(l.st, <<>>)
             ELSE IF kind = Null THEN Ok(l.pos, NilSlice)
             ELSE LET k == NextByte(b, l.pos)
                  IN  IF k.st # "ok" THEN Panic(k.st, <<>>)
                      ELSE DecodeSrvShardLoop(b, k.pos, k.val, <<>>)

DecodeSrvShardArray(b, pos, kind) ==
    IF kind = Null THEN Ok(pos, NilSlice)
    ELSE IF kind # Array THEN Panic("UnexpectedTag", <<>>)
    ELSE LET l == BsonNext(b, pos, 4)
         IN  IF l.st # "ok" THEN Panic(l.st, <<>>)
             ELSE LET k == NextByte(b, l.pos)
                  IN  IF k.st # "ok" THEN Panic(k.st, <<>>)
                      ELSE DecodeSrvShardLoop(b, k.pos, k.val, <<>>)

\* the zero value &KeyspacePartition{}
ZeroKeyspacePartition == [Shards |-> NilSlice]

KeyspacePartitionMarshalBson(kp, key) ==
    EncodeOptionalPrefix(Object, key)
        \o LenWriter(EncodeSrvShardArray(nShards, kp.Shards) \o <<0>>)

\* the switch keyName of KeyspacePartition.UnmarshalBson
KeyspacePartitionField(kp, b, pos, kind, keyName) ==
    IF keyName = nShards THEN Assigned(kp, "Shards", DecodeSrvShardArray(b, pos, kind))
    ELSE Skipped(kp, Skip(b, pos, kind))

RECURSIVE KeyspacePartitionLoop(_, _, _, _)
KeyspacePartitionNext(b, f) ==
    IF f.st # "ok" THEN f
    ELSE LET k == NextByte(b, f.pos)
         IN  IF k.st # "ok" THEN Panic(k.st, f.val)
             ELSE KeyspacePartitionLoop(f.val, b, k.pos, k.val)

KeyspacePartitionLoop(kp, b, pos, kind) ==
    IF kind = EOO THEN Ok(pos, kp)
    ELSE LET n == ReadCString(b, pos)
         IN  IF n.st # "ok" THEN Panic(n.st, kp)
             ELSE KeyspacePartitionNext(b, KeyspacePartitionField(kp, b, n.pos, kind, n.val))

KeyspacePartitionUnmarshalBson(kp, b, pos, kind) ==
    IF ~VerifyObject(kind) THEN Panic("UnexpectedTag", kp)
    ELSE LET l == BsonNext(b, pos, 4)
         IN  IF l.st # "ok" THEN Panic(l.st, kp)
             ELSE LET k == NextByte(b, l.pos)
                  IN  IF k.st # "ok" THEN Panic(k.st, kp)
                      ELSE KeyspacePartitionLoop(kp, b, k.pos, k.val)

(***************************************************************************)
(* SrvKeyspace.  A Go map is ranged over in an order the runtime picks:    *)
(* the encoders of maps take that order, ord, a sequence of the keys.      *)
(***************************************************************************)
NewSrvKeyspace(version) ==
    [Partitions |-> NilMap, Shards |-> NilSlice, TabletTypes |-> NilSlice,
     ShardingColumnName |-> <<>>, ShardingColumnType |-> <<>>, ServedFrom |-> NilMap,
     version |-> version]

RECURSIVE EncodeKeyspacePartitionElems(_, _, _)
EncodeKeyspacePartitionElems(m, ord, i) ==
    IF i > Len(ord) THEN <<>>
    ELSE KeyspacePartitionMarshalBson(m[ord[i]], ord[i])
            \o EncodeKeyspacePartitionElems(m, ord, i + 1)

\* EncodeKeyspacePartitionMap without its case for no entries
EncodeKeyspacePartitionMapObject(name, values, ord) ==
    EncodePrefix(Object, name)
        \o LenWriter(EncodeKeyspacePartitionElems(values.m, ord, 1) \o <<0>>)

EncodeKeyspacePartitionMap(name, values, ord) ==
    IF Cardinality(DOMAIN values.m) = 0 THEN EncodePrefix(Null, name)
    ELSE EncodePrefix(Object, name)
            \o LenWriter(EncodeKeyspacePartitionElems(values.m, ord, 1) \o <<0>>)

RECURSIVE DecodeKeyspacePartitionLoop(_, _, _, _)
\* values[TabletType(keyName)] = value; kind = bson.NextByte(buf), and around
DecodeKeyspacePartitionNext(b, values, keyName, s) ==
    IF s.st # "ok" THEN Panic(s.st, <<>>)
    ELSE LET k == NextByte(b, s.pos)
         IN  IF k.st # "ok" THEN Panic(k.st, <<>>)
             ELSE DecodeKeyspacePartitionLoop(b, k.pos, k.val, MapSet(values, keyName, s.val))

DecodeKeyspacePartitionLoop(b, pos, kind, values) ==
    IF kind = EOO THEN Ok(pos, Map(values))
    ELSE IF kind # Object THEN Panic("UnexpectedTag", <<>>)
    ELSE LET n == ReadCString(b, pos)
         IN  IF n.st # "ok" THEN Panic(n.st, <<>>)
             ELSE DecodeKeyspacePartitionNext(b, values, n.val,
                      KeyspacePartitionUnmarshalBson(ZeroKeyspacePartition, b, n.pos, kind))

DecodeKeyspacePartitionMap(b, pos, kind) ==
    IF kind = Null THEN Ok(pos, NilMap)
    ELSE IF kind # Object THEN Panic("UnexpectedTag", <<>>)
    ELSE LET l == BsonNext(b, pos, 4)
         IN  IF l.st # "ok" THEN Panic(l.st, <<>>)
             ELSE LET k == NextByte(b, l.pos)
                  IN  IF k.st # "ok" THEN Panic(k.st, <<>>)
                      ELSE DecodeKeyspacePartitionLoop(b, k.pos, k.val, <<>>)

RECURSIVE EncodeServedFromElems(_, _, _)
EncodeServedFromElems(m, ord, i) ==
    IF i > Len(ord) THEN <<>>
    ELSE EncodeString(ord[i], m[ord[i]]) \o EncodeServedFromElems(m, ord, i + 1)

EncodeServedFrom(name, servedFrom, ord) ==
    EncodePrefix(Object, name)
        \o LenWriter(EncodeServedFromElems(servedFrom.m, ord, 1) \o <<0>>)

RECURSIVE DecodeServedFromLoop(_, _, _)
\* servedFrom[TabletType(keyName)] = s, and around
DecodeServedFromNext(b, servedFrom, keyName, s) ==
    IF s.st # "ok" THEN Panic(s.st, <<>>)
    ELSE DecodeServedFromLoop(b, s.pos, MapSet(servedFrom, keyName, s.val))

\* the switch kind of DecodeServedFrom has the cases bson.String, bson.Binary
\* and no default
DecodeServedFromCase(b, pos, kind, servedFrom, keyName) ==
    IF kind \in {String, Binary} THEN
        DecodeServedFromNext(b, servedFrom, keyName, DecodeString(b, pos, kind))
    ELSE DecodeServedFromLoop(b, pos, servedFrom)

DecodeServedFromLoop(b, pos, servedFrom) ==
    LET k == NextByte(b, pos)
    IN  IF k.st # "ok" THEN Panic(k.st, <<>>)
        ELSE IF k.val = EOO THEN Ok(k.pos, Map(servedFrom))
        ELSE LET n == ReadCString(b, k.pos)
             IN  IF n.st # "ok" THEN Panic(n.st, <<>>)
                 ELSE DecodeServedFromCase(b, n.pos, k.val, servedFrom, n.val)

\* DecodeServedFrom taking every tag but Object for no map
DecodeServedFromLenient(b, pos, kind) ==
    IF kind # Object THEN Ok(pos, NilMap)
    ELSE LET l == BsonNext(b, pos, 4)
         IN  IF l.st # "ok" THEN Panic(l.st, <<>>)
             ELSE DecodeServedFromLoop(b, l.pos, <<>>)

DecodeServedFrom(b, pos, kind) ==
    IF kind = Null THEN Ok(pos, NilMap)
    ELSE IF kind # Object THEN Panic("UnexpectedTag", <<>>)
    ELSE LET l == BsonNext(b, pos, 4)
         IN  IF l.st # "ok" THEN Panic(l.st, <<>>)
             ELSE DecodeServedFromLoop(b, l.pos, <<>>)

\* ord: [p, s], the orders in which Partitions and ServedFrom are ranged over
SrvKeyspaceMarshalBson(sk, key, ord) ==
    EncodeOptionalPrefix(Object, key)
        \o LenWriter(EncodeKeyspacePartitionMap(nPartitions, sk.Partitions, ord.p)
                        \o EncodeSrvShardArray(nShards, sk.Shards)
                        \o EncodeTabletTypeArray(nTabletTypes, sk.TabletTypes)
                        \o EncodeString(nShardingColumnName, sk.ShardingColumnName)
                        \o EncodeString(nShardingColumnType, sk.ShardingColumnType)
                        \o EncodeServedFrom(nServedFrom, sk.ServedFrom, ord.s)
                        \o <<0>>)

\* the switch keyName of SrvKeyspace.UnmarshalBson
SrvKeyspaceField(sk, b, pos, kind, keyName) ==
    IF keyName = nPartitions THEN
        Assigned(sk, "Partitions", DecodeKeyspacePartitionMap(b, pos, kind))
    ELSE IF keyName = nShards THEN
        Assigned(sk, "Shards", DecodeSrvShardArray(b, pos, kind))
    ELSE IF keyName = nTabletTypes THEN
        Assigned(sk, "TabletTypes", DecodeTabletTypeArray(b, pos, kind))
    ELSE IF keyName = nShardingColumnName THEN
        Assigned(sk, "ShardingColumnName", DecodeString(b, pos, kind))
    ELSE IF keyName = nShardingColumnType THEN
        Assigned(sk, "ShardingColumnType", DecodeString(b, pos, kind))
    ELSE IF keyName = nServedFrom THEN
        Assigned(sk, "ServedFrom", DecodeServedFrom(b, pos, kind))
    ELSE Skipped(sk, Skip(b, pos, kind))

RECURSIVE SrvKeyspaceLoop(_, _, _, _)
SrvKeyspaceNext(b, f) ==
    IF f.st # "ok" THEN f
    ELSE LET k == NextByte(b, f.pos)
         IN  IF k.st # "ok" THEN Panic(k.st, f.val)
             ELSE SrvKeyspaceLoop(f.val, b, k.pos, k.val)

SrvKeyspaceLoop(sk, b, pos, kind) ==
    IF kind = EOO THEN Ok(pos, sk)
    ELSE LET n == ReadCString(b, pos)
         IN  IF n.st # "ok" THEN Panic(n.st, sk)
             ELSE SrvKeyspaceNext(b, SrvKeyspaceField(sk, b, n.pos, kind, n.val))

SrvKeyspaceUnmarshalBson(sk, b, pos, kind) ==
    IF ~VerifyObject(kind) THEN Panic("UnexpectedTag", sk)
    ELSE LET l == BsonNext(b, pos, 4)
         IN  IF l.st # "ok" THEN Panic(l.st, sk)
             ELSE LET k == NextByte(b, l.pos)
                  IN  IF k.st # "ok" THEN Panic(k.st, sk)
                      ELSE SrvKeyspaceLoop(sk, b, k.pos, k.val)

(***************************************************************************)
(* Inputs: the values the callers build and hand to the encoders.          *)
(***************************************************************************)
TypePool == <<nmaster, nreplica, nrdonly>>

Min(a, b) == IF a < b THEN a ELSE b

\* absent, empty, and of size 1 .. MaxTypes
TypeLists ==
    {NilSlice} \cup {Slice(SubSeq(TypePool, 1, n)) : n \in 0..Min(MaxTypes, Len(TypePool))}

KeyRanges ==
    {ZeroKeyRange, [Start |-> <<>>, End |-> <<128>>], [Start |-> <<128>>, End |-> <<192, 0>>]}

Versions == 0..MaxVersion

\* every combination of the serialized fields, and every version
SrvShardValues ==
    {[KeyRange |-> kr, ServedTypes |-> s, TabletTypes |-> t, version |-> 0] :
        kr \in KeyRanges, s \in TypeLists, t \in TypeLists}
    \cup {[KeyRange |-> [Start |-> <<>>, End |-> <<128>>],
           ServedTypes |-> Slice(<<nmaster>>), TabletTypes |-> NilSlice, version |-> v] :
                v \in Versions}

ShardPool ==
    <<[KeyRange |-> [Start |-> <<>>, End |-> <<128>>],
       ServedTypes |-> Slice(<<nmaster, nreplica>>), TabletTypes |-> Slice(<<nmaster>>),
       version |-> 0],
      [KeyRange |-> [Start |-> <<128>>, End |-> <<192, 0>>],
       ServedTypes |-> Slice(<<nmaster>>), TabletTypes |-> NilSlice, version |-> 0],
      [KeyRange |-> [Start |-> <<192, 0>>, End |-> <<>>],
       ServedTypes |-> Slice(<<>>), TabletTypes |-> Slice(<<nrdonly>>), version |-> 0]>>

ShardLists ==
    {NilSlice} \cup {Slice(SubSeq(ShardPool, 1, n)) : n \in 0..Min(MaxShards, Len(ShardPool))}

FullShards == Slice(SubSeq(ShardPool, 1, Min(MaxShards, Len(ShardPool))))

KeyspacePartitionValues == {[Shards |-> l] : l \in ShardLists}

PartitionPool == <<[Shards |-> FullShards], [Shards |-> NilSlice], [Shards |-> Slice(<<ShardPool[1]>>)]>>

KeyspacePool == <<nks1, nks2, nks1>>

\* the map of the first n TabletTypes to the first n values of pool
MapOf(pool, n) == Map([k \in {TypePool[i] : i \in 1..n} |->
                            pool[CHOOSE i \in 1..n : TypePool[i] = k]])

PartitionMaps ==
    {NilMap} \cup {MapOf(PartitionPool, n) : n \in 0..Min(MaxTypes, Len(TypePool))}

ServedFromMaps ==
    {NilMap} \cup {MapOf(KeyspacePool, n) : n \in 0..Min(MaxTypes, Len(TypePool))}

\* every field set; two entries in a map let a range over it take either order
FullSrvKeyspace ==
    [Partitions |-> MapOf(PartitionPool, Min(MaxTypes, 2)),
     Shards |-> FullShards,
     TabletTypes |-> Slice(SubSeq(TypePool, 1, Min(MaxTypes, Len(TypePool)))),
     ShardingColumnName |-> nid, ShardingColumnType |-> nuint64,
     ServedFrom |-> MapOf(KeyspacePool, Min(MaxTypes, 2)),
     version |-> 0]

\* the values each field of a SrvKeyspace is drawn from
SrvKeyspaceOptions ==
    [Partitions |-> PartitionMaps, Shards |-> ShardLists, TabletTypes |-> TypeLists,
     ShardingColumnName |-> {<<>>, nid}, ShardingColumnType |-> {<<>>, nuint64},
     ServedFrom |-> ServedFromMaps, version |-> Versions]

\* the full value, and the zero value with one field set to each of its values
SrvKeyspaceValues ==
    {FullSrvKeyspace}
    \cup UNION {{[NewSrvKeyspace(0) EXCEPT ![f] = o] : o \in SrvKeyspaceOptions[f]} :
                    f \in DOMAIN SrvKeyspaceOptions}

\* the orders a range over a map with key set S may take
Orders(S) ==
    {s \in [1..Cardinality(S) -> S] : \A i, j \in 1..Cardinality(S) : s[i] = s[j] => i = j}

NoOrder == [p |-> <<>>, s |-> <<>>]

(***************************************************************************)
(* Buffers a decoder is handed: what the encoder wrote, as the store       *)
(* returns it, or as another writer of the format would have written it.   *)
(***************************************************************************)
Entities == {"SrvShard", "KeyspacePartition", "SrvKeyspace"}

Collections == {"TabletTypeArray", "SrvShardArray", "KeyspacePartitionMap", "ServedFrom"}

\* position of the 4 length bytes of the composite that b holds
BlockStart(w, b) == IF w \in Entities THEN 1 ELSE IndexByte(b, 1) + 1

HasBlock(w, b) == w \in Entities \/ b[1] # Null

\* the children of a composite, each [tag][name][0][value], from pos to the terminator
RECURSIVE FieldChunks(_, _)
FieldChunks(b, pos) ==
    IF pos > Len(b) \/ b[pos] = EOO THEN <<>>
    ELSE LET n == ReadCString(b, pos + 1)
             s == Skip(b, n.pos, b[pos])
         IN  <<SubSeq(b, pos, s.pos - 1)>> \o FieldChunks(b, s.pos)

Chunks(w, b) == IF HasBlock(w, b) THEN FieldChunks(b, BlockStart(w, b) + 4) ELSE <<>>

ChunkName(c) == ReadCString(c, 2).val

RECURSIVE Flatten(_)
Flatten(cs) == IF cs = <<>> THEN <<>> ELSE Head(cs) \o Flatten(Tail(cs))

Rebuild(w, b, cs) == SubSeq(b, 1, BlockStart(w, b) - 1) \o LenWriter(Flatten(cs) \o <<0>>)

\* a well-formed field of the given kind
WellFormed(kind, name) ==
    IF kind = Null THEN EncodePrefix(Null, name)
    ELSE IF kind = String THEN EncodePrefix(String, name) \o Uint32(2) \o <<120, 0>>
    ELSE IF kind = Binary THEN EncodeString(name, <<120>>)
    ELSE EncodePrefix(kind, name) \o LenWriter(<<0>>)

InsertAt(cs, i, c) == SubSeq(cs, 1, i) \o <<c>> \o SubSeq(cs, i + 1, Len(cs))

Trailers == <<<<0>>, <<Binary, 88, 0, 1, 0, 0, 0, 0, 120>>>>

Wire(t, i, k, bytes) == [t |-> t, i |-> i, k |-> k, bytes |-> bytes]

\* the buffers read back for b: as written; followed by the next value's bytes;
\* with a field of an unknown name added by a newer writer; with a field or an
\* element written with another kind; with another kind before the composite
GoodWires(w, b) ==
    LET cs == Chunks(w, b)
    IN  {Wire("none", 0, 0, b)}
        \cup {Wire("trail", i, 0, b \o Trailers[i]) : i \in 1..Len(Trailers)}
        \cup {Wire("inject", i, k, Rebuild(w, b, InsertAt(cs, i, WellFormed(k, nX)))) :
                    i \in IF w \in Entities THEN 0..Len(cs) ELSE {}, k \in Tags}
        \cup UNION {{Wire("replace", i, k,
                          Rebuild(w, b, [cs EXCEPT ![i] = WellFormed(k, ChunkName(cs[i]))])) :
                        k \in Tags \ {cs[i][1]}} : i \in 1..Len(cs)}
        \cup {Wire("retag", 0, k, <<k>> \o Tail(b)) :
                    k \in IF w \in Collections THEN Tags \ {b[1]} ELSE {}}

\* the buffers a damaged record gives: cut short, or a field of another kind
BadWires(w, b) ==
    LET cs == Chunks(w, b)
    IN  {Wire("cut", i, 0, SubSeq(b, 1, i)) : i \in (BlockStart(w, b) - 1)..(Len(b) - 1)}
        \cup UNION {{Wire("replace", i, k,
                          Rebuild(w, b, [cs EXCEPT ![i] = WellFormed(k, ChunkName(cs[i]))])) :
                        k \in Tags \ {cs[i][1]}} : i \in 1..Len(cs)}

Wires(w, b, damaged) == IF damaged THEN BadWires(w, b) ELSE GoodWires(w, b)

(***************************************************************************)
(* Instances decoded into: a zero value, or one already in use.            *)
(***************************************************************************)
UsedSrvShard ==
    [KeyRange |-> [Start |-> <<64>>, End |-> <<64, 1>>],
     ServedTypes |-> Slice(<<nrdonly>>), TabletTypes |-> Slice(<<nrdonly, nrdonly>>),
     version |-> MaxVersion]

UsedKeyspacePartition == [Shards |-> Slice(<<ShardPool[3]>>)]

UsedSrvKeyspace ==
    [Partitions |-> Map([k \in {nrdonly} |-> [Shards |-> Slice(<<>>)]]),
     Shards |-> Slice(<<ShardPool[3]>>), TabletTypes |-> Slice(<<nrdonly>>),
     ShardingColumnName |-> nks2, ShardingColumnType |-> nks2,
     ServedFrom |-> Map([k \in {nrdonly} |-> nks2]),
     version |-> MaxVersion]

(***************************************************************************)
(* The codec's operations.                                                 *)
(***************************************************************************)
Encoded(w, v, ord, bytes) ==
    /\ phase = "idle"
    /\ what' = w
    /\ src' = v
    /\ order' = ord
    /\ buf' = bytes
    /\ phase' = "encoded"
    /\ UNCHANGED <<tamper, wire, dst0, dst, res>>

Decoded(w, target, r) ==
    /\ tamper' = [t |-> w.t, i |-> w.i, k |-> w.k]
    /\ wire' = w.bytes
    /\ dst0' = target
    /\ dst' = r.val
    /\ res' = [st |-> r.st, pos |-> r.pos]
    /\ phase' = "decoded"
    /\ UNCHANGED <<what, src, order, buf>>

MarshalSrvShard ==
    /\ \E v \in SrvShardValues : Encoded("SrvShard", v, NoOrder, SrvShardMarshalBson(v, <<>>))
    /\ UNCHANGED sortVars

UnmarshalSrvShard(damaged) ==
    /\ phase = "encoded" /\ what = "SrvShard"
    /\ \E w \in Wires(what, buf, damaged), target \in {NewSrvShard(0), UsedSrvShard} :
          Decoded(w, target, SrvShardUnmarshalBson(target, w.bytes, 1, Object))
    /\ UNCHANGED sortVars

MarshalKeyspacePartition ==
    /\ \E v \in KeyspacePartitionValues :
          Encoded("KeyspacePartition", v, NoOrder, KeyspacePartitionMarshalBson(v, <<>>))
    /\ UNCHANGED sortVars

UnmarshalKeyspacePartition(damaged) ==
    /\ phase = "encoded" /\ what = "KeyspacePartition"
    /\ \E w \in Wires(what, buf, damaged), target \in {ZeroKeyspacePartition, UsedKeyspacePartition} :
          Decoded(w, target, KeyspacePartitionUnmarshalBson(target, w.bytes, 1, Object))
    /\ UNCHANGED sortVars

MarshalSrvKeyspace ==
    /\ \E v \in SrvKeyspaceValues :
          \E p \in Orders(DOMAIN v.Partitions.m), s \in Orders(DOMAIN v.ServedFrom.m) :
              Encoded("SrvKeyspace", v, [p |-> p, s |-> s],
                      SrvKeyspaceMarshalBson(v, <<>>, [p |-> p, s |-> s]))
    /\ UNCHANGED sortVars

UnmarshalSrvKeyspace(damaged) ==
    /\ phase = "encoded" /\ what = "SrvKeyspace"
    /\ \E w \in Wires(what, buf, damaged), target \in {NewSrvKeyspace(0), UsedSrvKeyspace} :
          Decoded(w, target, SrvKeyspaceUnmarshalBson(target, w.bytes, 1, Object))
    /\ UNCHANGED sortVars

\* what an object decoder's loop does before it hands a field to DecodeXxx:
\* kind = bson.NextByte(buf); keyName := bson.ReadCString(buf)
ReadField(b) ==
    LET k == NextByte(b, 1)
    IN  IF k.st # "ok" THEN Panic(k.st, <<>>)
        ELSE LET n == ReadCString(b, k.pos)
             IN  IF n.st # "ok" THEN Panic(n.st, <<>>) ELSE Ok(n.pos, k.val)

EncodeTabletTypes ==
    /\ \E v \in TypeLists :
          Encoded("TabletTypeArray", v, NoOrder, EncodeTabletTypeArray(nTabletTypes, v))
    /\ UNCHANGED sortVars

DecodeTabletTypes(damaged) ==
    /\ phase = "encoded" /\ what = "TabletTypeArray"
    /\ \E w \in Wires(what, buf, damaged) :
          LET h == ReadField(w.bytes)
          IN  Decoded(w, <<>>, IF h.st # "ok" THEN h ELSE DecodeTabletTypeArray(w.bytes, h.pos, h.val))
    /\ UNCHANGED sortVars

EncodeSrvShards ==
    /\ \E v \in ShardLists :
          Encoded("SrvShardArray", v, NoOrder, EncodeSrvShardArray(nShards, v))
    /\ UNCHANGED sortVars

DecodeSrvShards(damaged) ==
    /\ phase = "encoded" /\ what = "SrvShardArray"
    /\ \E w \in Wires(what, buf, damaged) :
          LET h == ReadField(w.bytes)
          IN  Decoded(w, <<>>, IF h.st # "ok" THEN h ELSE DecodeSrvShardArray(w.bytes, h.pos, h.val))
    /\ UNCHANGED sortVars

EncodePartitions ==
    /\ \E v \in PartitionMaps : \E p \in Orders(DOMAIN v.m) :
          Encoded("KeyspacePartitionMap", v, [p |-> p, s |-> <<>>],
                  EncodeKeyspacePartitionMap(nPartitions, v, p))
    /\ UNCHANGED sortVars

DecodePartitions(damaged) ==
    /\ phase = "encoded" /\ what = "KeyspacePartitionMap"
    /\ \E w \in Wires(what, buf, damaged) :
          LET h == ReadField(w.bytes)
          IN  Decoded(w, <<>>, IF h.st # "ok" THEN h ELSE DecodeKeyspacePartitionMap(w.bytes, h.pos, h.val))
    /\ UNCHANGED sortVars

EncodeServedFromMap ==
    /\ \E v \in ServedFromMaps : \E s \in Orders(DOMAIN v.m) :
          Encoded("ServedFrom", v, [p |-> <<>>, s |-> s], EncodeServedFrom(nServedFrom, v, s))
    /\ UNCHANGED sortVars

DecodeServedFromMap(damaged) ==
    /\ phase = "encoded" /\ what = "ServedFrom"
    /\ \E w \in Wires(what, buf, damaged) :
          LET h == ReadField(w.bytes)
          IN  Decoded(w, <<>>, IF h.st # "ok" THEN h ELSE DecodeServedFrom(w.bytes, h.pos, h.val))
    /\ UNCHANGED sortVars

(***************************************************************************)
(* SrvShardArray and its Sort().                                           *)
(***************************************************************************)
\* Go's < on strings: byte-wise lexicographic
RECURSIVE StringLess(_, _)
StringLess(a, b) ==
    IF b = <<>> THEN FALSE
    ELSE IF a = <<>> THEN TRUE
    ELSE IF Head(a) # Head(b) THEN Head(a) < Head(b)
    ELSE StringLess(Tail(a), Tail(b))

SrvShardArrayLen(s) == Len(s)

\* Less the other way round
SrvShardArrayLessDescending(s, i, j) == StringLess(s[j].KeyRange.Start, s[i].KeyRange.Start)

SrvShardArrayLess(s, i, j) == StringLess(s[i].KeyRange.Start, s[j].KeyRange.Start)

SrvShardArraySwap(s, i, j) == [s EXCEPT ![i] = s[j], ![j] = s[i]]

\* sort.Sort's result: the elements, moved by Swap, until no two are out of order
\* under Less; sort.Sort does not promise which such arrangement
Arrangements(n) == {p \in [1..n -> 1..n] : \A i, j \in 1..n : p[i] = p[j] => i = j}

InOrder(s) ==
    \A i, j \in 1..SrvShardArrayLen(s) : i < j => ~SrvShardArrayLess(s, j, i)

\* a Sort() that moves the shards and orders nothing
SortResultsAny(s) ==
    {[i \in 1..SrvShardArrayLen(s) |-> s[p[i]]] : p \in Arrangements(SrvShardArrayLen(s))}

SortResults(s) ==
    {r \in {[i \in 1..SrvShardArrayLen(s) |-> s[p[i]]] : p \in Arrangements(SrvShardArrayLen(s))} :
        InOrder(r)}

SortPool ==
    <<[NewSrvShard(0) EXCEPT !.KeyRange = [Start |-> <<>>, End |-> <<64>>]],
      [NewSrvShard(0) EXCEPT !.KeyRange = [Start |-> <<64>>, End |-> <<64, 0>>]],
      [NewSrvShard(0) EXCEPT !.KeyRange = [Start |-> <<64, 0>>, End |-> <<128>>]],
      [NewSrvShard(0) EXCEPT !.KeyRange = [Start |-> <<64>>, End |-> <<128>>]]>>

SortInputs == UNION {[1..n -> {SortPool[i] : i \in 1..Len(SortPool)}] : n \in 0..MaxSort}

\* number of Sort() calls followed
MaxSorts == 2

Sort ==
    /\ nsort < MaxSorts
    /\ \E r \in SortResults(sa) :
          /\ sa' = r
          /\ sa1' = IF nsort = 0 THEN r ELSE sa1
    /\ nsort' = nsort + 1
    /\ UNCHANGED <<sa0, codecVars>>

(***************************************************************************)
(* Specifications.                                                         *)
(***************************************************************************)
InitCodec ==
    /\ what = "none" /\ src = <<>> /\ order = NoOrder /\ buf = <<>>
    /\ tamper = [t |-> "none", i |-> 0, k |-> 0] /\ wire = <<>>
    /\ dst0 = <<>> /\ dst = <<>> /\ res = [st |-> "ok", pos |-> 0]
    /\ phase = "idle"

Init ==
    /\ InitCodec
    /\ sa0 = <<>> /\ sa1 = <<>> /\ sa = <<>> /\ nsort = 0

Marshal ==
    \/ MarshalSrvShard
    \/ MarshalKeyspacePartition
    \/ MarshalSrvKeyspace
    \/ EncodeTabletTypes
    \/ EncodeSrvShards
    \/ EncodePartitions
    \/ EncodeServedFromMap

\* records read back from a store that returns what a writer of the format wrote
Next ==
    \/ Marshal
    \/ UnmarshalSrvShard(FALSE)
    \/ UnmarshalKeyspacePartition(FALSE)
    \/ UnmarshalSrvKeyspace(FALSE)
    \/ DecodeTabletTypes(FALSE)
    \/ DecodeSrvShards(FALSE)
    \/ DecodePartitions(FALSE)
    \/ DecodeServedFromMap(FALSE)

Spec == Init /\ [][Next]_vars

\* records read back damaged
NextDamaged ==
    \/ Marshal
    \/ UnmarshalSrvShard(TRUE)
    \/ UnmarshalKeyspacePartition(TRUE)
    \/ UnmarshalSrvKeyspace(TRUE)
    \/ DecodeTabletTypes(TRUE)
    \/ DecodeSrvShards(TRUE)
    \/ DecodePartitions(TRUE)
    \/ DecodeServedFromMap(TRUE)

SpecDamaged == Init /\ [][NextDamaged]_vars

InitSort ==
    /\ InitCodec
    /\ sa0 \in SortInputs
    /\ sa = sa0 /\ sa1 = <<>> /\ nsort = 0

NextSort == Sort

SpecSort == InitSort /\ [][NextSort]_vars

(***************************************************************************)
(* Properties.                                                             *)
(***************************************************************************)
\* the serialized fields of a value, a nil collection and an empty one alike
SerializedShard(ss) ==
    [KeyRange |-> ss.KeyRange, ServedTypes |-> ss.ServedTypes.v, TabletTypes |-> ss.TabletTypes.v]

SerializedShards(l) == [i \in 1..Len(l.v) |-> SerializedShard(l.v[i])]

SerializedPartition(kp) == [Shards |-> SerializedShards(kp.Shards)]

SerializedPartitions(pm) == [k \in DOMAIN pm.m |-> SerializedPartition(pm.m[k])]

SerializedField(f, x) ==
    CASE f \in {"ServedTypes", "TabletTypes"} -> x.v
      [] f = "Shards" -> SerializedShards(x)
      [] f = "Partitions" -> SerializedPartitions(x)
      [] f = "ServedFrom" -> x.m
      [] OTHER -> x

SerializedKeyspace(sk) ==
    [f \in {"Partitions", "Shards", "TabletTypes", "ShardingColumnName", "ShardingColumnType",
            "ServedFrom"} |-> SerializedField(f, sk[f])]

Serialized(w, v) ==
    CASE w = "SrvShard" -> SerializedShard(v)
      [] w = "KeyspacePartition" -> SerializedPartition(v)
      [] w = "SrvKeyspace" -> SerializedKeyspace(v)

Zero(w) ==
    CASE w = "SrvShard" -> NewSrvShard(0)
      [] w = "KeyspacePartition" -> ZeroKeyspacePartition
      [] w = "SrvKeyspace" -> NewSrvKeyspace(0)

Unmarshal(w, target, b) ==
    CASE w = "SrvShard" -> SrvShardUnmarshalBson(target, b, 1, Object)
      [] w = "KeyspacePartition" -> KeyspacePartitionUnmarshalBson(target, b, 1, Object)
      [] w = "SrvKeyspace" -> SrvKeyspaceUnmarshalBson(target, b, 1, Object)

\* the Go field a wire name is decoded into
FieldOf(name) ==
    CASE name = nKeyRange -> "KeyRange"
      [] name = nServedTypes -> "ServedTypes"
      [] name = nTabletTypes -> "TabletTypes"
      [] name = nShards -> "Shards"
      [] name = nPartitions -> "Partitions"
      [] name = nShardingColumnName -> "ShardingColumnName"
      [] name = nShardingColumnType -> "ShardingColumnType"
      [] name = nServedFrom -> "ServedFrom"

\* the tag written before the field called name
FieldKind(w, b, name) ==
    LET cs == Chunks(w, b)
    IN  cs[CHOOSE i \in 1..Len(cs) : ChunkName(cs[i]) = name][1]

Empty(m) == DOMAIN m.m = {}

\* C1: an entity encoded and decoded into a zero-valued instance comes back equal
\* in every serialized field, a nil collection and an empty one counting as equal.
RoundTrip ==
    (phase = "decoded" /\ what \in Entities /\ tamper.t = "none" /\ dst0 = Zero(what))
        => (res.st = "ok" /\ Serialized(what, dst) = Serialized(what, src))

RoundTripWitness ==
    /\ phase = "decoded" /\ what = "SrvKeyspace" /\ tamper.t = "none"
    /\ src = FullSrvKeyspace /\ dst0 = NewSrvKeyspace(0)
    /\ res.st = "ok" /\ Serialized(what, dst) = Serialized(what, src)

\* C2 as stated: for Partitions and for ServedFrom an empty or absent map is
\* written with the Null tag, and the Object tag only for a map with an entry.
EmptyMapIsNull ==
    /\ (phase # "idle" /\ what = "SrvKeyspace") =>
          /\ Empty(src.Partitions) <=> FieldKind(what, buf, nPartitions) = Null
          /\ Empty(src.ServedFrom) <=> FieldKind(what, buf, nServedFrom) = Null
    /\ (phase # "idle" /\ what \in {"KeyspacePartitionMap", "ServedFrom"}) =>
          (Empty(src) <=> buf[1] = Null)

\* C2 amended: Partitions is written with the Null tag and no body when empty or
\* absent and with the Object tag otherwise; ServedFrom is always written with the
\* Object tag, an empty or absent map as an Object without entries.
MapEncodingTags ==
    /\ (phase # "idle" /\ what = "SrvKeyspace") =>
          /\ FieldKind(what, buf, nPartitions) = IF Empty(src.Partitions) THEN Null ELSE Object
          /\ FieldKind(what, buf, nServedFrom) = Object
    /\ (phase # "idle" /\ what = "KeyspacePartitionMap") =>
          IF Empty(src) THEN buf = EncodePrefix(Null, nPartitions) ELSE buf[1] = Object
    /\ (phase # "idle" /\ what = "ServedFrom") =>
          /\ buf[1] = Object
          /\ Empty(src) => buf = EncodePrefix(Object, nServedFrom) \o LenWriter(<<0>>)

MapEncodingTagsWitness ==
    /\ phase = "encoded" /\ what = "SrvKeyspace"
    /\ Empty(src.ServedFrom) /\ Empty(src.Partitions)
    /\ FieldKind(what, buf, nServedFrom) = Object
    /\ FieldKind(what, buf, nPartitions) = Null

\* the kinds each collection's decoder takes for an element
ElementKinds(w) ==
    IF w \in {"TabletTypeArray", "ServedFrom"} THEN {String, Binary} ELSE {Object}

\* C3: inside a collection an element of a kind that is not the expected one makes
\* the decode fault with UnexpectedTag.
WrongElementFaults ==
    (phase = "decoded" /\ what \in Collections /\ tamper.t = "replace"
        /\ tamper.k \notin ElementKinds(what))
        => res.st = "UnexpectedTag"

\* the top-level fields of buf, and the index of the field a damaged decode
\* faults in (one past the last when only the terminator is missing)
RECURSIVE ChunkEnd(_, _, _, _)
ChunkEnd(w, b, cs, k) ==
    IF k = 0 THEN BlockStart(w, b) + 3 ELSE ChunkEnd(w, b, cs, k - 1) + Len(cs[k])

FaultField ==
    LET cs == Chunks(what, buf)
        late == {k \in 1..Len(cs) : ChunkEnd(what, buf, cs, k) > tamper.i}
    IN  IF tamper.t = "replace" THEN tamper.i
        ELSE IF late = {} THEN Len(cs) + 1
        ELSE CHOOSE k \in late : \A m \in late : k <= m

\* C4 as stated: a decode that faults leaves the target as it was.
NoPartialValue ==
    (phase = "decoded" /\ what \in Entities /\ res.st # "ok") => dst = dst0

\* C4 amended: a decode that faults aborts with that fault and returns nothing,
\* but it has worked on the target in place: the fields decoded before the fault
\* hold the decoded values, the field the fault is in and the fields after it
\* keep their old values (of a KeyRange the fault is in, Start and End each hold
\* the old or the decoded value), and the version is unchanged.
PartialValueOnFault ==
    (phase = "decoded" /\ what \in Entities /\ tamper.t \in {"cut", "replace"}) =>
        /\ tamper.t = "cut" => res.st = "Truncated"
        /\ res.st # "ok" =>
            /\ tamper.t = "replace" => res.st = "UnexpectedTag"
            /\ what # "KeyspacePartition" => dst.version = dst0.version
            /\ LET cs == Chunks(what, buf)
                   at == FaultField
               IN  \A k \in 1..Len(cs) :
                     LET f == FieldOf(ChunkName(cs[k]))
                     IN  /\ k < at =>
                                SerializedField(f, dst[f]) = SerializedField(f, src[f])
                         /\ k > at => dst[f] = dst0[f]
                         /\ (k = at /\ f # "KeyRange") => dst[f] = dst0[f]
                         /\ (k = at /\ f = "KeyRange") =>
                                /\ dst[f].Start \in {src[f].Start, dst0[f].Start}
                                /\ dst[f].End \in {src[f].End, dst0[f].End}

PartialValueWitness ==
    /\ phase = "decoded" /\ what = "SrvShard" /\ tamper.t = "cut" /\ res.st = "Truncated"
    /\ dst0 = UsedSrvShard
    /\ dst.KeyRange = src.KeyRange /\ dst.KeyRange # dst0.KeyRange
    /\ dst.ServedTypes.v = src.ServedTypes.v /\ dst.ServedTypes # dst0.ServedTypes
    /\ dst.TabletTypes = dst0.TabletTypes /\ src.TabletTypes.v # <<>>

\* C5: a decoder handed encode(x) followed by other bytes stops at the first of
\* those bytes.
ExactConsumption ==
    (phase = "decoded" /\ tamper.t \in {"none", "trail"})
        => (res.st = "ok" /\ res.pos = Len(buf) + 1)

ExactConsumptionWitness ==
    /\ phase = "decoded" /\ what = "ServedFrom" /\ tamper.t = "trail"
    /\ ~Empty(src) /\ Len(wire) > Len(buf)
    /\ res.st = "ok" /\ res.pos = Len(buf) + 1

\* C6: a well-formed field of an unknown name, before, between or after the known
\* fields, changes neither the outcome nor the value of an object decode.
UnknownFieldTolerance ==
    (phase = "decoded" /\ what \in Entities /\ tamper.t = "inject") =>
        /\ res.st = "ok"
        /\ dst = Unmarshal(what, dst0, buf).val

UnknownFieldWitness ==
    /\ phase = "decoded" /\ what = "SrvKeyspace" /\ tamper.t = "inject"
    /\ tamper.i = 3 /\ tamper.k = Object /\ src = FullSrvKeyspace
    /\ Len(wire) > Len(buf)
    /\ res.st = "ok" /\ Serialized(what, dst) = Serialized(what, src)

\* the tags each collection's decoder takes before the composite
CompositeKinds(w) ==
    IF w \in {"TabletTypeArray", "SrvShardArray"} THEN {Null, Array} ELSE {Null, Object}

CollectionOf(f) ==
    CASE f \in {"ServedTypes", "TabletTypes"} -> "TabletTypeArray"
      [] f = "Shards" -> "SrvShardArray"
      [] f = "Partitions" -> "KeyspacePartitionMap"
      [] f = "ServedFrom" -> "ServedFrom"
      [] OTHER -> "none"

\* the field of the entity that was written with another kind
ReplacedField == FieldOf(ChunkName(Chunks(what, buf)[tamper.i]))

\* C7: a collection decoder handed a tag outside its allowed set faults with
\* UnexpectedTag and returns no collection, called on its own or for a field of an
\* entity.
CompositeTagFault ==
    /\ (phase = "decoded" /\ what \in Collections /\ tamper.t = "retag"
            /\ tamper.k \notin CompositeKinds(what))
          => (res.st = "UnexpectedTag" /\ dst = <<>>)
    /\ (phase = "decoded" /\ what \in Entities /\ tamper.t = "replace"
            /\ CollectionOf(ReplacedField) # "none"
            /\ tamper.k \notin CompositeKinds(CollectionOf(ReplacedField)))
          => res.st = "UnexpectedTag"

CompositeTagWitness ==
    /\ phase = "decoded" /\ what = "ServedFrom" /\ tamper.t = "retag" /\ tamper.k = Array
    /\ ~Empty(src) /\ res.st = "UnexpectedTag"

\* the shards of s in the order a stable sort by KeyRange.Start gives
RECURSIVE InsertStable(_, _)
InsertStable(s, x) ==
    IF s = <<>> THEN <<x>>
    ELSE IF StringLess(x.KeyRange.Start, Head(s).KeyRange.Start) THEN <<x>> \o s
    ELSE <<Head(s)>> \o InsertStable(Tail(s), x)

RECURSIVE StableSorted(_)
StableSorted(s) ==
    IF s = <<>> THEN <<>>
    ELSE InsertStable(StableSorted(SubSeq(s, 1, Len(s) - 1)), s[Len(s)])

Count(s, x) == Cardinality({i \in 1..Len(s) : s[i] = x})

SameShards(s, r) == Len(s) = Len(r) /\ \A i \in 1..Len(s) : Count(s, s[i]) = Count(r, s[i])

\* C8 as stated: Sort() keeps shards of equal KeyRange.Start in their order.
SortStable == nsort >= 1 => sa1 = StableSorted(sa0)

\* C8 amended: Sort() leaves the same shards in ascending (non-decreasing) order
\* of KeyRange.Start; the order of shards of equal Start is not determined.
SortAscending ==
    nsort >= 1 =>
        /\ SameShards(sa0, sa)
        /\ \A i, j \in 1..Len(sa) :
              i < j => ~StringLess(sa[j].KeyRange.Start, sa[i].KeyRange.Start)

SortAscendingWitness ==
    /\ nsort = 1 /\ Len(sa0) = 2
    /\ sa0[1].KeyRange.Start = sa0[2].KeyRange.Start
    /\ sa = <<sa0[2], sa0[1]>> /\ sa # sa0

\* [start, end) ranges, an empty End for the end of the key space
Overlap(a, b) ==
    /\ (b.End = <<>> \/ StringLess(a.Start, b.End))
    /\ (a.End = <<>> \/ StringLess(b.Start, a.End))

DistinctRanges(s) ==
    \A i, j \in 1..Len(s) :
        i # j => /\ s[i].KeyRange.Start # s[j].KeyRange.Start
                 /\ ~Overlap(s[i].KeyRange, s[j].KeyRange)

\* C9: shards of distinct, non-overlapping ranges are left by Sort() strictly
\* ascending by KeyRange.Start, the same shards, and a second Sort() changes nothing.
SortDistinct ==
    (nsort >= 1 /\ DistinctRanges(sa0)) =>
        /\ SameShards(sa0, sa)
        /\ \A i, j \in 1..Len(sa) :
              i < j => StringLess(sa[i].KeyRange.Start, sa[j].KeyRange.Start)
        /\ nsort >= 2 => sa = sa1

SortDistinctWitness ==
    /\ nsort = 2 /\ Len(sa0) = 3 /\ DistinctRanges(sa0)
    /\ sa0 = <<SortPool[3], SortPool[1], SortPool[2]>>
    /\ sa = <<SortPool[1], SortPool[2], SortPool[3]>> /\ sa = sa1

MarshalOf(w, v, ord) ==
    IF w = "SrvShard" THEN SrvShardMarshalBson(v, <<>>)
    ELSE SrvKeyspaceMarshalBson(v, <<>>, ord)

\* C10: the bytes written do not depend on the version, and a decode, faulting or
\* not, leaves the version of the instance decoded into as it was.
VersionNotOnWire ==
    /\ (phase # "idle" /\ what \in {"SrvShard", "SrvKeyspace"}) =>
          buf = MarshalOf(what, [src EXCEPT !.version = 0], order)
    /\ (phase = "decoded" /\ what \in {"SrvShard", "SrvKeyspace"}) =>
          dst.version = dst0.version

VersionWitness ==
    /\ phase = "decoded" /\ what = "SrvShard" /\ tamper.t = "none" /\ res.st = "ok"
    /\ src.version = 0 /\ dst0.version = MaxVersion /\ MaxVersion > 0
    /\ dst.version = MaxVersion /\ dst.KeyRange = src.KeyRange

=============================================================================
